---- MODULE Spec2Model ----
(***************************************************************************)
(* cleanmedia: purge of expired media of a Dendrite media store.           *)
(*                                                                         *)
(* The catalog is two tables (mediaapi_media_repository, and               *)
(* mediaapi_thumbnail) plus the avatar column of userapi_profiles; the     *)
(* filesystem is a tree of directories and plain files below media_path.   *)
(* Strings the code slices or searches (hashes, media ids, avatar URLs,    *)
(* path segments) are tuples of one-character strings; a path is the tuple *)
(* of its segments below media_path.                                       *)
(***************************************************************************)
EXTENDS Integers, Sequences, FiniteSets, TLC

VARIABLES
    media,              \* rows of mediaapi_media_repository
    thumbnail,          \* mediaapi_thumbnail: media_id -> number of rows
    profiles,           \* userapi_profiles.avatar_url, in store order
    dirs,               \* the directories below media_path
    files,              \* the plain files below media_path
    _avatar_media_ids,  \* MediaRepository._avatar_media_ids
    pc,                 \* where main() is: "start", "checked", "loop", "done"
    run,                \* the locals of the running clean_media_files
    obs,                \* what the last operation did: statements, calls, log
    probe               \* one File object: its cached fullpath and what it returned

vars == <<media, thumbnail, profiles, dirs, files, _avatar_media_ids, pc, run, obs,
         probe>>

(* ------------------------------ bounds -------------------------------- *)

MaxThumbs == 1          \* thumbnail rows per media id
MaxDays == 1            \* the --days argument ranges over 1..MaxDays
MaxHashLen == 4         \* length of the base64hash of the File under observation
MaxCalls == 2           \* accesses of fullpath, and calls of exists, on that File
MaxUrlLen == 3          \* length of an avatar_url
MaxProfiles == 2        \* rows of userapi_profiles

(* ----------------------------- constants ------------------------------ *)

MsPerSec == 1000        \* row[1] // 1000
DayMs == 86400000       \* timedelta(days=1), in milliseconds

(* ----------------------------- universes ------------------------------ *)

MediaIds == {<<"1">>, <<"2">>}
Hashes == {<<>>, <<"a", "b">>, <<"a", "b", "c">>}
UserIds == {"", "@u:s"}
\* creation_ts in epoch milliseconds
TsChoices == {1999, 2000}
\* the clock at the call of clean_media_files, in milliseconds
NowChoices == {DayMs + 1500, DayMs + 2000}
\* the names of plain files a media directory may hold
FileNames == {<<"f", "i", "l", "e">>, <<"t">>}

\* the rows a catalog may hold: the second artifact is remote media with a hash
Rows ==
    {r \in [media_id : MediaIds, creation_ts : TsChoices,
            base64hash : Hashes, user_id : UserIds] :
        r.media_id = <<"2">> => r.user_id = "" /\ r.base64hash # <<>>}

Min(S) == CHOOSE x \in S : \A y \in S : x <= y

\* every enumeration of the finite set S without repetition
Orders(S) ==
    {s \in [1..Cardinality(S) -> S] : \A x \in S : \E k \in 1..Cardinality(S) : s[k] = x}

(* ------------------------------- File --------------------------------- *)

None == [none |-> TRUE, path |-> <<>>]
Some(p) == [none |-> FALSE, path |-> p]

\* Python's s[i:j] on a string (0-based, end exclusive, clamped)
Slice(s, i, j) ==
    IF i >= Len(s) \/ j <= i THEN <<>>
    ELSE SubSeq(s, i + 1, IF j < Len(s) THEN j ELSE Len(s))

\* pathlib's p / segment: an empty segment adds nothing
Join(p, seg) == IF seg = <<>> THEN p ELSE Append(p, seg)

\* the storage root, as the path relative to itself
media_path == <<>>

\* File.__init__; create_date in whole seconds
File(media_id, creation_ts, base64hash) ==
    [media_id |-> media_id, create_date |-> creation_ts, base64hash |-> base64hash]

\* fullpath with the hash cut in two: first two characters, then the rest
fullpath_TwoLevels(file) ==
    IF file.base64hash = <<>> THEN None
    ELSE Some(Join(Join(media_path,
                        Slice(file.base64hash, 0, 2)),
                   Slice(file.base64hash, 2, Len(file.base64hash))))

\* File.fullpath, as computed on first access (the hash holds no "/" and no ".")
fullpath(file) ==
    IF file.base64hash = <<>> THEN None
    ELSE Some(Join(Join(Join(media_path,
                             Slice(file.base64hash, 0, 1)),
                        Slice(file.base64hash, 1, 2)),
                   Slice(file.base64hash, 2, Len(file.base64hash))))

\* Path.glob("*"): the entries directly inside directory p
Glob(p, D, F) ==
    {q \in D \cup F : Len(q) = Len(p) + 1 /\ SubSeq(q, 1, Len(p)) = p}

LogRec(level, msg, id, n) == [level |-> level, msg |-> msg, id |-> id, n |-> n]

\* TryRemove without the rmdir: the emptied directory is left behind
TryRemove_NoRmdir(file, p, order, inject, D, F) ==
    LET n == Len(order)
        stop == Min({inject} \cup {k \in 1..n : order[k] \in D})
        removed == {order[k] : k \in {j \in 1..n : j < stop}}
    IN  IF stop = n + 2
        THEN [ret |-> TRUE, dirs |-> D, files |-> F \ removed,
              log |-> <<LogRec("debug", "Deleted directory", file.media_id, 0)>>]
        ELSE [ret |-> FALSE, dirs |-> D, files |-> F \ removed,
              log |-> <<LogRec("error", "Failed to delete files", file.media_id, 0)>>]

\* One run of the try block of _delete_files over the entries in glob order
\* `order`. The steps are 0 (glob), k (unlink of order[k]), Len+1 (rmdir);
\* `inject` is the step at which the operating system refuses (Len+2: none).
\* unlink of a directory raises OSError whatever `inject` is.
TryRemove(file, p, order, inject, D, F) ==
    LET n == Len(order)
        stop == Min({inject} \cup {k \in 1..n : order[k] \in D})
        removed == {order[k] : k \in {j \in 1..n : j < stop}}
    IN  IF stop = n + 2
        THEN [ret |-> TRUE, dirs |-> D \ {p}, files |-> F \ removed,
              log |-> <<LogRec("debug", "Deleted directory", file.media_id, 0)>>]
        ELSE [ret |-> FALSE, dirs |-> D, files |-> F \ removed,
              log |-> <<LogRec("error", "Failed to delete files", file.media_id, 0)>>]

\* _delete_files returning True when the directory is not there
_delete_files_TrueIfAbsent(file, D, F) ==
    IF fullpath(file).none
    THEN {[ret |-> FALSE, dirs |-> D, files |-> F,
           log |-> <<LogRec("info", "No known path", file.media_id, 0)>>]}
    ELSE IF fullpath(file).path \notin D
    THEN {[ret |-> TRUE, dirs |-> D, files |-> F,
           log |-> <<LogRec("debug", "not a directory", file.media_id, 0)>>]}
    ELSE {TryRemove(file, fullpath(file).path, order, inject, D, F) :
            order \in Orders(Glob(fullpath(file).path, D, F)),
            inject \in 0..(Cardinality(Glob(fullpath(file).path, D, F)) + 2)}

\* the outcomes of File._delete_files on the filesystem (D, F)
_delete_files(file, D, F) ==
    IF fullpath(file).none
    THEN {[ret |-> FALSE, dirs |-> D, files |-> F,
           log |-> <<LogRec("info", "No known path", file.media_id, 0)>>]}
    ELSE IF fullpath(file).path \notin D
    THEN {[ret |-> FALSE, dirs |-> D, files |-> F,
           log |-> <<LogRec("debug", "not a directory", file.media_id, 0)>>]}
    ELSE {TryRemove(file, fullpath(file).path, order, inject, D, F) :
            order \in Orders(Glob(fullpath(file).path, D, F)),
            inject \in 0..(Cardinality(Glob(fullpath(file).path, D, F)) + 2)}

DeleteThumbnail(id) == [sql |-> "DELETE mediaapi_thumbnail", media_id |-> id]
DeleteMedia(id) == [sql |-> "DELETE mediaapi_media_repository", media_id |-> id]
Commit == [sql |-> "COMMIT", media_id |-> <<>>]

\* _delete_db_entries committing after the first DELETE it issues, the
\* DELETE on mediaapi_thumbnail coming after the commit and never committed
_delete_db_entries_CommitFirst(file, M, T) ==
    [ret |-> TRUE,
     media |-> {r \in M : r.media_id # file.media_id},
     thumbnail |-> T,
     stmts |-> <<DeleteMedia(file.media_id), Commit, DeleteThumbnail(file.media_id)>>,
     log |-> <<LogRec("debug", "Deleted db entries", file.media_id,
                      Cardinality({r \in M : r.media_id = file.media_id}))>>]

\* _delete_db_entries without the statement on mediaapi_thumbnail
_delete_db_entries_NoThumb(file, M, T) ==
    [ret |-> TRUE,
     media |-> {r \in M : r.media_id # file.media_id},
     thumbnail |-> T,
     stmts |-> <<DeleteMedia(file.media_id), Commit>>,
     log |-> <<LogRec("debug", "Deleted db entries", file.media_id,
                      Cardinality({r \in M : r.media_id = file.media_id}))>>]

\* File._delete_db_entries on the tables (M, T)
_delete_db_entries(file, M, T) ==
    [ret |-> TRUE,
     media |-> {r \in M : r.media_id # file.media_id},
     thumbnail |-> [id \in DOMAIN T |-> IF id = file.media_id THEN 0 ELSE T[id]],
     stmts |-> <<DeleteThumbnail(file.media_id), DeleteMedia(file.media_id), Commit>>,
     log |-> <<LogRec("debug", "Deleted db entries", file.media_id,
                      Cardinality({r \in M : r.media_id = file.media_id})
                      + T[file.media_id])>>]

\* delete without the early return: the rows go whatever _delete_files returned
delete_AlwaysDb(file, M, T, D, F) ==
    {[ret |-> _delete_db_entries(file, M, T).ret,
      media |-> _delete_db_entries(file, M, T).media,
      thumbnail |-> _delete_db_entries(file, M, T).thumbnail,
      dirs |-> fsr.dirs, files |-> fsr.files,
      stmts |-> _delete_db_entries(file, M, T).stmts,
      log |-> fsr.log \o _delete_db_entries(file, M, T).log]
     : fsr \in _delete_files(file, D, F)}

\* the outcomes of File.delete
delete(file, M, T, D, F) ==
    {IF ~fsr.ret
     THEN [ret |-> FALSE, media |-> M, thumbnail |-> T,
           dirs |-> fsr.dirs, files |-> fsr.files, stmts |-> <<>>, log |-> fsr.log]
     ELSE [ret |-> _delete_db_entries(file, M, T).ret,
           media |-> _delete_db_entries(file, M, T).media,
           thumbnail |-> _delete_db_entries(file, M, T).thumbnail,
           dirs |-> fsr.dirs, files |-> fsr.files,
           stmts |-> _delete_db_entries(file, M, T).stmts,
           log |-> fsr.log \o _delete_db_entries(file, M, T).log]
     : fsr \in _delete_files(file, D, F)}

\* File.exists
exists(file, D, F) ==
    IF fullpath(file).none THEN FALSE
    ELSE Append(fullpath(file).path, <<"f", "i", "l", "e">>) \in D \cup F

(* -------------------------- MediaRepository --------------------------- *)

\* get_single_media: the File of the row with this id, if any
get_single_media(mxid, M) ==
    {File(r.media_id, r.creation_ts \div MsPerSec, r.base64hash) :
        r \in {x \in M : x.media_id = mxid}}

\* get_all_media without the WHERE user_id = '' restriction
AllMediaRows_NoFilter(local, M) == M

\* the rows get_all_media selects
AllMediaRows(local, M) ==
    IF ~local THEN {r \in M : r.user_id = ""} ELSE M

\* get_all_media: the Files of the selected rows, in the order the store
\* returns them (the query has no ORDER BY: every order)
get_all_media(local, M) ==
    {[k \in 1..Len(o) |-> File(o[k].media_id, o[k].creation_ts \div MsPerSec,
                               o[k].base64hash)] :
        o \in Orders(AllMediaRows(local, M))}

InSeq(x, s) == \E k \in 1..Len(s) : s[k] = x

\* str.index("/") in place of rindex: the first "/"
RIndex_First(url) ==
    IF \E k \in 1..Len(url) : url[k] = "/"
    THEN CHOOSE k \in 1..Len(url) :
            url[k] = "/" /\ \A j \in 1..(k - 1) : url[j] # "/"
    ELSE 0

\* str.rindex("/") as a 1-based position; 0 stands for the ValueError
RIndex(url) ==
    IF \E k \in 1..Len(url) : url[k] = "/"
    THEN CHOOSE k \in 1..Len(url) :
            url[k] = "/" /\ \A j \in (k + 1)..Len(url) : url[j] # "/"
    ELSE 0

\* the loop of get_avatar_images over the fetched urls
RECURSIVE AvatarScan(_)
AvatarScan(urls) ==
    IF urls = <<>> THEN [ids |-> <<>>, log |-> <<>>]
    ELSE LET url == Head(urls)
             rest == AvatarScan(Tail(urls))
         IN  IF RIndex(url) = 0
             THEN [ids |-> rest.ids,
                   log |-> <<LogRec("warning", "Invalid avatar URL", url, 0)>> \o rest.log]
             ELSE [ids |-> <<Slice(url, RIndex(url), Len(url))>> \o rest.ids,
                   log |-> rest.log]

\* get_avatar_images on the profile rows P: the new _avatar_media_ids and the log
get_avatar_images(P) == AvatarScan(SelectSeq(P, LAMBDA u : u # <<>>))

RECURSIVE SumOver(_, _)
SumOver(T, S) ==
    IF S = {} THEN 0
    ELSE LET x == CHOOSE y \in S : TRUE IN T[x] + SumOver(T, S \ {x})

\* the COUNT of sanity_check_thumbnails: NOT EXISTS (SELECT media_id FROM
\* mediaapi_media_repository) does not mention the thumbnail row
SanityCount(M, T) == IF M = {} THEN SumOver(T, DOMAIN T) ELSE 0

\* sanity_check_thumbnails: what it logs
sanity_check_thumbnails(M, T) ==
    IF SanityCount(M, T) # 0
    THEN <<LogRec("error", "thumbnails that do not refer to media", <<>>, SanityCount(M, T))>>
    ELSE <<>>

\* the filter with <= for <
Eligible_Le(f, avatars, cutoff_date) ==
    ~InSeq(f.media_id, avatars) /\ f.create_date * MsPerSec <= cutoff_date

\* the filter of clean_media_files (lines 273-277)
Eligible(f, avatars, cutoff_date) ==
    ~InSeq(f.media_id, avatars) /\ f.create_date * MsPerSec < cutoff_date

(* ------------------------------ state --------------------------------- *)

Snapshot == [media |-> media, thumbnail |-> thumbnail, dirs |-> dirs, files |-> files,
             avatars |-> _avatar_media_ids]

NewObs(op) ==
    [op |-> op, stmts |-> <<>>, calls |-> <<>>, refreshes |-> 0, log |-> <<>>,
     returned |-> <<>>, pre |-> Snapshot]

NoRun == [days |-> 0, local |-> FALSE, dryrun |-> FALSE, now |-> 0, cutoff_date |-> 0,
          candidates |-> <<>>, files_to_delete |-> <<>>, i |-> 0]

\* no File object under observation
NoProbe == [file |-> File(<<>>, 0, <<>>), cached |-> FALSE, cache |-> None,
            results |-> <<>>, exists |-> <<>>]

DirA == <<<<"a">>>>
DirAB == <<<<"a">>, <<"b">>>>
DirABC == <<<<"a">>, <<"b">>, <<"c">>>>

\* the trees below media_path: a/b/c holds plain files, a/b holds a/b/c
FsChoices ==
    {[dirs |-> {}, files |-> {}], [dirs |-> {DirA, DirAB}, files |-> {}]}
    \cup {[dirs |-> {DirA, DirAB, DirABC}, files |-> {Append(DirABC, n) : n \in N}] :
            N \in SUBSET FileNames}

\* the avatar_url column: no profile, or an empty, a malformed and a valid url
ProfileChoices == {<<>>, <<<<>>, <<"x">>, <<"s", "/", "1">>>>}

Init ==
    /\ probe = NoProbe
    /\ media \in {S \in SUBSET Rows :
                    \A r1, r2 \in S : r1.media_id = r2.media_id => r1 = r2}
    /\ thumbnail \in [MediaIds -> 0..MaxThumbs]
    /\ profiles \in ProfileChoices
    /\ \E fs \in FsChoices : dirs = fs.dirs /\ files = fs.files
    /\ _avatar_media_ids = <<>>
    /\ pc = "start"
    /\ run = NoRun
    /\ obs = NewObs("none")

\* the strings over alphabet A of length 0..n
Strings(A, n) == UNION {[1..k -> A] : k \in 0..n}

\* the base64hash values of the File under observation
HashInputs == Strings({"a", "b"}, MaxHashLen)

\* the avatar_url values: empty, with and without "/", "/" first, last, twice
UrlInputs == Strings({"/", "1"}, MaxUrlLen)

(* ----------------------------- operations ----------------------------- *)

\* process_single_media: look the id up and, unless dryrun, delete it
ProcessSingleMedia(mxid, dryrun) ==
    /\ UNCHANGED probe
    /\ pc = "start"
    /\ pc' = "done"
    /\ UNCHANGED <<profiles, _avatar_media_ids, run>>
    /\ IF get_single_media(mxid, media) = {} \/ dryrun
       THEN /\ obs' = NewObs("single")
            /\ UNCHANGED <<media, thumbnail, dirs, files>>
       ELSE \E file \in get_single_media(mxid, media) :
            \E out \in delete(file, media, thumbnail, dirs, files) :
                /\ media' = out.media
                /\ thumbnail' = out.thumbnail
                /\ dirs' = out.dirs
                /\ files' = out.files
                /\ obs' = [NewObs("single") EXCEPT
                             !.stmts = out.stmts,
                             !.calls = <<[media_id |-> file.media_id, ret |-> out.ret]>>,
                             !.log = out.log]

\* File.delete called once more on the File process_single_media has deleted
\* (the File object outlives its row: it was built from the row as loaded)
DeleteAgain ==
    /\ UNCHANGED probe
    /\ pc = "done"
    /\ obs.op = "single"
    /\ Len(obs.calls) = 1
    /\ UNCHANGED <<profiles, _avatar_media_ids, run, pc>>
    /\ \E file \in get_single_media(obs.calls[1].media_id, obs.pre.media) :
       \E out \in delete(file, media, thumbnail, dirs, files) :
            /\ media' = out.media
            /\ thumbnail' = out.thumbnail
            /\ dirs' = out.dirs
            /\ files' = out.files
            /\ obs' = [obs EXCEPT
                         !.stmts = obs.stmts \o out.stmts,
                         !.calls = Append(obs.calls,
                                          [media_id |-> file.media_id, ret |-> out.ret]),
                         !.log = obs.log \o out.log]

\* main's sanity_check_thumbnails call
SanityCheck ==
    /\ UNCHANGED probe
    /\ pc = "start"
    /\ pc' = "checked"
    /\ obs' = [NewObs("sanity") EXCEPT !.log = sanity_check_thumbnails(media, thumbnail)]
    /\ UNCHANGED <<media, thumbnail, profiles, dirs, files, _avatar_media_ids, run>>

\* clean_media_files filtering with the cache as it was before the refresh
PurgeStart_FilterBeforeRefresh(days, local, dryrun, now) ==
    /\ UNCHANGED probe
    /\ pc = "checked"
    /\ _avatar_media_ids' =
          IF local THEN get_avatar_images(profiles).ids ELSE _avatar_media_ids
    /\ \E all \in get_all_media(local, media) :
          run' = [days |-> days, local |-> local, dryrun |-> dryrun, now |-> now,
                  cutoff_date |-> now - days * DayMs,
                  candidates |-> all,
                  files_to_delete |->
                      SelectSeq(all, LAMBDA f :
                          Eligible(f, _avatar_media_ids, now - days * DayMs)),
                  i |-> 1]
    /\ obs' = [NewObs("purge") EXCEPT
                 !.refreshes = IF local THEN 1 ELSE 0,
                 !.log = (IF local THEN get_avatar_images(profiles).log ELSE <<>>)
                         \o <<LogRec("info", "Deleting remote media older than", <<>>,
                                     now - days * DayMs)>>]
    /\ pc' = "loop"
    /\ UNCHANGED <<media, thumbnail, profiles, dirs, files>>

\* clean_media_files up to the loop (lines 267-277); `now` is datetime.today()
PurgeStart(days, local, dryrun, now) ==
    /\ UNCHANGED probe
    /\ pc = "checked"
    /\ _avatar_media_ids' =
          IF local THEN get_avatar_images(profiles).ids ELSE _avatar_media_ids
    /\ \E all \in get_all_media(local, media) :
          run' = [days |-> days, local |-> local, dryrun |-> dryrun, now |-> now,
                  cutoff_date |-> now - days * DayMs,
                  candidates |-> all,
                  files_to_delete |->
                      SelectSeq(all, LAMBDA f :
                          Eligible(f, _avatar_media_ids', now - days * DayMs)),
                  i |-> 1]
    /\ obs' = [NewObs("purge") EXCEPT
                 !.refreshes = IF local THEN 1 ELSE 0,
                 !.log = (IF local THEN get_avatar_images(profiles).log ELSE <<>>)
                         \o <<LogRec("info", "Deleting remote media older than", <<>>,
                                     now - days * DayMs)>>]
    /\ pc' = "loop"
    /\ UNCHANGED <<media, thumbnail, profiles, dirs, files>>

\* the loop body deleting also in a dry run
PurgeStep_IgnoresDryrun ==
    /\ UNCHANGED probe
    /\ pc = "loop"
    /\ run.i <= Len(run.files_to_delete)
    /\ run' = [run EXCEPT !.i = run.i + 1]
    /\ UNCHANGED <<profiles, _avatar_media_ids, pc>>
    /\ LET file == run.files_to_delete[run.i] IN
       IF FALSE
       THEN /\ obs' = [obs EXCEPT !.log =
                          obs.log
                          \o <<LogRec("info", "Would delete file", file.media_id, 0)>>
                          \o (IF ~exists(file, dirs, files)
                              THEN <<LogRec("info", "doesn't exist", file.media_id, 0)>>
                              ELSE <<>>)]
            /\ UNCHANGED <<media, thumbnail, dirs, files>>
       ELSE \E out \in delete(file, media, thumbnail, dirs, files) :
                /\ media' = out.media
                /\ thumbnail' = out.thumbnail
                /\ dirs' = out.dirs
                /\ files' = out.files
                /\ obs' = [obs EXCEPT
                             !.stmts = obs.stmts \o out.stmts,
                             !.calls = Append(obs.calls,
                                              [media_id |-> file.media_id, ret |-> out.ret]),
                             !.log = obs.log \o out.log]

\* the loop body leaving the loop when a delete() fails
PurgeStep_StopsOnFailure ==
    /\ UNCHANGED probe
    /\ pc = "loop"
    /\ run.i <= Len(run.files_to_delete)
    /\ UNCHANGED <<profiles, _avatar_media_ids, pc>>
    /\ LET file == run.files_to_delete[run.i] IN
       IF run.dryrun
       THEN /\ obs' = [obs EXCEPT !.log =
                          obs.log
                          \o <<LogRec("info", "Would delete file", file.media_id, 0)>>
                          \o (IF ~exists(file, dirs, files)
                              THEN <<LogRec("info", "doesn't exist", file.media_id, 0)>>
                              ELSE <<>>)]
            /\ run' = [run EXCEPT !.i = run.i + 1]
            /\ UNCHANGED <<media, thumbnail, dirs, files>>
       ELSE \E out \in delete(file, media, thumbnail, dirs, files) :
                /\ media' = out.media
                /\ thumbnail' = out.thumbnail
                /\ dirs' = out.dirs
                /\ files' = out.files
                /\ run' = [run EXCEPT !.i = IF out.ret THEN run.i + 1
                                             ELSE Len(run.files_to_delete) + 1]
                /\ obs' = [obs EXCEPT
                             !.stmts = obs.stmts \o out.stmts,
                             !.calls = Append(obs.calls,
                                              [media_id |-> file.media_id, ret |-> out.ret]),
                             !.log = obs.log \o out.log]

\* one iteration of the loop of clean_media_files (lines 279-285)
PurgeStep ==
    /\ UNCHANGED probe
    /\ pc = "loop"
    /\ run.i <= Len(run.files_to_delete)
    /\ run' = [run EXCEPT !.i = run.i + 1]
    /\ UNCHANGED <<profiles, _avatar_media_ids, pc>>
    /\ LET file == run.files_to_delete[run.i] IN
       IF run.dryrun
       THEN /\ obs' = [obs EXCEPT !.log =
                          obs.log
                          \o <<LogRec("info", "Would delete file", file.media_id, 0)>>
                          \o (IF ~exists(file, dirs, files)
                              THEN <<LogRec("info", "doesn't exist", file.media_id, 0)>>
                              ELSE <<>>)]
            /\ UNCHANGED <<media, thumbnail, dirs, files>>
       ELSE \E out \in delete(file, media, thumbnail, dirs, files) :
                /\ media' = out.media
                /\ thumbnail' = out.thumbnail
                /\ dirs' = out.dirs
                /\ files' = out.files
                /\ obs' = [obs EXCEPT
                             !.stmts = obs.stmts \o out.stmts,
                             !.calls = Append(obs.calls,
                                              [media_id |-> file.media_id, ret |-> out.ret]),
                             !.log = obs.log \o out.log]

\* the return counting the deletions that succeeded
PurgeReturn_CountDeleted ==
    /\ UNCHANGED probe
    /\ pc = "loop"
    /\ run.i > Len(run.files_to_delete)
    /\ obs' = [obs EXCEPT
                 !.returned = <<Cardinality({c \in 1..Len(obs.calls) : obs.calls[c].ret})>>,
                 !.log = obs.log
                         \o <<LogRec("info",
                                     IF run.dryrun THEN "Would have deleted" ELSE "Deleted",
                                     <<>>, Len(run.files_to_delete))>>]
    /\ pc' = "done"
    /\ UNCHANGED <<media, thumbnail, profiles, dirs, files, _avatar_media_ids, run>>

\* the end of clean_media_files (lines 287-289)
PurgeReturn ==
    /\ UNCHANGED probe
    /\ pc = "loop"
    /\ run.i > Len(run.files_to_delete)
    /\ obs' = [obs EXCEPT
                 !.returned = <<Len(run.files_to_delete)>>,
                 !.log = obs.log
                         \o <<LogRec("info",
                                     IF run.dryrun THEN "Would have deleted" ELSE "Deleted",
                                     <<>>, Len(run.files_to_delete))>>]
    /\ pc' = "done"
    /\ UNCHANGED <<media, thumbnail, profiles, dirs, files, _avatar_media_ids, run>>

\* the process ends and the tool is started again: MediaRepository.__init__
Restart ==
    /\ UNCHANGED probe
    /\ pc = "done"
    /\ pc' = "start"
    /\ _avatar_media_ids' = <<>>
    /\ run' = NoRun
    /\ obs' = NewObs("none")
    /\ UNCHANGED <<media, thumbnail, profiles, dirs, files>>

Next ==
    \/ \E mxid \in MediaIds, dryrun \in BOOLEAN : ProcessSingleMedia(mxid, dryrun)
    \/ DeleteAgain
    \/ SanityCheck
    \/ \E days \in 1..MaxDays, local \in BOOLEAN, dryrun \in BOOLEAN, now \in NowChoices :
          PurgeStart(days, local, dryrun, now)
    \/ PurgeStep
    \/ PurgeReturn
    \/ Restart

Spec == Init /\ [][Next]_vars

\* the catalogs in which every media id has MaxThumbs thumbnail rows and the
\* profile store holds its three urls
FairInit ==
    /\ probe = NoProbe
    /\ media \in {S \in SUBSET Rows :
                    \A r1, r2 \in S : r1.media_id = r2.media_id => r1 = r2}
    /\ thumbnail = [id \in MediaIds |-> MaxThumbs]
    /\ profiles = <<<<>>, <<"x">>, <<"s", "/", "1">>>>
    /\ \E fs \in FsChoices : dirs = fs.dirs /\ files = fs.files
    /\ _avatar_media_ids = <<>>
    /\ pc = "start"
    /\ run = NoRun
    /\ obs = NewObs("none")

\* clean_media_files is one sequential loop: an iteration that can run does,
\* and so does the return after the last one
FairSpec == FairInit /\ [][Next]_vars /\ WF_vars(PurgeStep) /\ WF_vars(PurgeReturn)

(* ---------------------- the step of one delete() ---------------------- *)

\* this step is one call of File.delete (by process_single_media or the loop)
DeleteCalled == Len(obs'.calls) = Len(obs.calls) + 1
CalledId == obs'.calls[Len(obs'.calls)].media_id
CalledRet == obs'.calls[Len(obs'.calls)].ret
\* the row the File of this call was built from, as loaded when the operation began
CalledRow == CHOOSE r \in obs'.pre.media : r.media_id = CalledId
CalledPath == fullpath(File(CalledId, CalledRow.creation_ts \div MsPerSec,
                            CalledRow.base64hash))
\* the statements and the log lines of this call
NewStmts == SubSeq(obs'.stmts, Len(obs.stmts) + 1, Len(obs'.stmts))
NewLog == SubSeq(obs'.log, Len(obs.log) + 1, Len(obs'.log))
RowsOf(id, M) == {r \in M : r.media_id = id}

(* ------------------------------- C1 ----------------------------------- *)

CalledGone ==
    /\ ~CalledPath.none
    /\ CalledPath.path \notin dirs'
    /\ Glob(CalledPath.path, dirs', files') = {}
    /\ RowsOf(CalledId, media') = {}
    /\ thumbnail'[CalledId] = 0

CalledIntact ==
    /\ dirs' = dirs
    /\ files' = files
    /\ media' = media
    /\ thumbnail' = thumbnail

\* C1: delete() is all-or-nothing: after every call of delete(), either the
\* storage directory, every entry in it, the artifact row and its thumbnail
\* rows are gone, or the directory with all its entries and the rows are
\* exactly as before the call.
C1_AllOrNothing == [][DeleteCalled => (CalledGone \/ CalledIntact)]_vars

(* ------------------------------- C2 ----------------------------------- *)

\* the filesystem phase of this call failed: no location, no directory there,
\* or the directory is still there afterwards (an OSError before rmdir ended)
FsFailed ==
    \/ CalledPath.none
    \/ CalledPath.path \notin dirs
    \/ CalledPath.path \in dirs'

NoFsError == \A k \in 1..Len(NewLog) : NewLog[k].level # "error"

\* C3: delete() on an artifact whose storage directory exists and holds only
\* plain files (N >= 0 of them), with no filesystem error, removes all the
\* files and then the directory, and returns true.
C3_RemovesAllFiles ==
    [][ ( /\ DeleteCalled
          /\ ~CalledPath.none
          /\ CalledPath.path \in dirs
          /\ Glob(CalledPath.path, dirs, files) \subseteq files
          /\ NoFsError ) =>
              /\ CalledRet
              /\ dirs' = dirs \ {CalledPath.path}
              /\ files' = files \ Glob(CalledPath.path, dirs, files)
              /\ Glob(CalledPath.path, dirs', files') = {} ]_vars

\* a delete() returned true on a directory that held two plain files
C3_Witness ==
    /\ pc = "done"
    /\ obs.op = "single"
    /\ Len(obs.calls) = 1
    /\ obs.calls[1].ret
    /\ Cardinality(obs.pre.files) = 2
    /\ files = {}
    /\ DirABC \in obs.pre.dirs
    /\ DirABC \notin dirs

(* ------------------------------- C4 ----------------------------------- *)

\* C4: a delete() that returns true has removed the directory and issued
\* exactly one thumbnail deletion, then one artifact deletion, both for its
\* own id, then one commit, and nothing else; no row of that id remains and
\* the rows of every other id are untouched.
C4_StatementsOfDelete ==
    [][ (DeleteCalled /\ CalledRet) =>
              /\ CalledPath.path \notin dirs'
              /\ Len(NewStmts) = 3
              /\ NewStmts[1] = [sql |-> "DELETE mediaapi_thumbnail", media_id |-> CalledId]
              /\ NewStmts[2] = [sql |-> "DELETE mediaapi_media_repository",
                                media_id |-> CalledId]
              /\ NewStmts[3].sql = "COMMIT"
              /\ RowsOf(CalledId, media') = {}
              /\ thumbnail'[CalledId] = 0
              /\ \A id \in MediaIds \ {CalledId} :
                    RowsOf(id, media') = RowsOf(id, media)
                    /\ thumbnail'[id] = thumbnail[id] ]_vars

\* a delete() returned true for an artifact with a thumbnail row while the
\* other artifact, with a thumbnail row of its own, stayed
C4_Witness ==
    /\ pc = "done"
    /\ obs.op = "single"
    /\ Len(obs.calls) = 1
    /\ obs.calls[1].ret
    /\ obs.pre.thumbnail[obs.calls[1].media_id] > 0
    /\ thumbnail[obs.calls[1].media_id] = 0
    /\ Len(obs.stmts) = 3
    /\ \E r \in media : thumbnail[r.media_id] > 0

(* --------------------------- purge: C5..C9 ---------------------------- *)

PurgeRunning == obs.op = "purge" /\ pc \in {"loop", "done"}
PurgeDone == obs.op = "purge" /\ pc = "done"
Called(id) == \E k \in 1..Len(obs.calls) : obs.calls[k].media_id = id
\* the cutoff of the running purge: the time of the call minus retentionDays
Cutoff == run.now - run.days * DayMs
\* url is a reference to id: id is what follows its last "/"
UrlNames(url, id) ==
    \E k \in 1..Len(url) :
        /\ url[k] = "/"
        /\ SubSeq(url, k + 1, Len(url)) = id
        /\ \A j \in (k + 1)..Len(url) : url[j] # "/"
\* id is protected in the running purge: by the profile store when the
\* cache is refreshed, by the cache as it was at the call otherwise
ProtectedAtStart(id) ==
    IF run.local THEN \E k \in 1..Len(profiles) : UrlNames(profiles[k], id)
    ELSE InSeq(id, obs.pre.avatars)
\* the rows, at the call, of the eligible subset
EligibleRows ==
    {r \in obs.pre.media :
        /\ run.local \/ r.user_id = ""
        /\ ~ProtectedAtStart(r.media_id)
        /\ (r.creation_ts \div MsPerSec) * MsPerSec < Cutoff}
RowsKept(id) ==
    RowsOf(id, media) = RowsOf(id, obs.pre.media) /\ thumbnail[id] = obs.pre.thumbnail[id]

\* C5: in a live purge delete() is invoked on a candidate iff its id is not
\* in the protected-id cache and its createdAt is strictly before the cutoff;
\* a candidate that is not eligible is never passed to delete() and keeps
\* its rows.
C5_DeleteIffEligible ==
    (PurgeRunning /\ ~run.dryrun) =>
        \A k \in 1..Len(run.candidates) :
            LET f == run.candidates[k]
                eligible == ~InSeq(f.media_id, _avatar_media_ids)
                            /\ f.create_date * MsPerSec < Cutoff
            IN  /\ Called(f.media_id) => eligible
                /\ (pc = "done" /\ eligible) => Called(f.media_id)
                /\ ~eligible => RowsKept(f.media_id)

\* a live purge is over in which one candidate was created exactly at the
\* cutoff and was not passed to delete(), and another one was
C5_Witness ==
    /\ PurgeDone
    /\ ~run.dryrun
    /\ \E k \in 1..Len(run.candidates) :
          /\ run.candidates[k].create_date * MsPerSec = Cutoff
          /\ ~Called(run.candidates[k].media_id)
    /\ Len(obs.calls) = 1

C7_DryRunFrame ==
    (PurgeRunning /\ run.dryrun) =>
        /\ obs.stmts = <<>>
        /\ obs.calls = <<>>
        /\ media = obs.pre.media
        /\ thumbnail = obs.pre.thumbnail
        /\ dirs = obs.pre.dirs
        /\ files = obs.pre.files
        /\ pc = "done" => obs.returned = <<Cardinality(EligibleRows)>>

\* a dry run returned 2, one of the two artifacts having its file on disk
\* and a thumbnail row, the other not being on disk
C7_Witness ==
    /\ PurgeDone
    /\ run.dryrun
    /\ obs.returned = <<2>>
    /\ \E k \in 1..2 : exists(run.files_to_delete[k], dirs, files)
                       /\ thumbnail[run.files_to_delete[k].media_id] > 0
    /\ \E k \in 1..Len(obs.log) : obs.log[k].msg = "doesn't exist"

\* C8: a purge with includeLocallyOwned refreshes the protected-id cache
\* once, before the candidates are filtered: every id an avatar url refers to
\* is in the cache, and no id of the cache is among the files to delete, is
\* passed to delete() or loses its rows.
C8_ProtectedNeverDeleted ==
    (PurgeRunning /\ run.local) =>
        /\ obs.refreshes = 1
        /\ \A id \in MediaIds :
              (\E k \in 1..Len(profiles) : UrlNames(profiles[k], id))
                  => InSeq(id, _avatar_media_ids)
        /\ \A id \in MediaIds :
              InSeq(id, _avatar_media_ids) =>
                  /\ ~Called(id)
                  /\ \A k \in 1..Len(run.files_to_delete) :
                        run.files_to_delete[k].media_id # id
                  /\ RowsKept(id)

\* a live purge with includeLocallyOwned is over: the protected artifact is
\* older than the cutoff and still has its rows, the other one was deleted
C8_Witness ==
    /\ PurgeDone
    /\ run.local
    /\ ~run.dryrun
    /\ \E r \in media :
          /\ InSeq(r.media_id, _avatar_media_ids)
          /\ (r.creation_ts \div MsPerSec) * MsPerSec < Cutoff
    /\ \E k \in 1..Len(obs.calls) : obs.calls[k].ret

\* C9: a purge without includeLocallyOwned loads exactly the rows whose
\* user_id is empty, so an artifact with an owner is never passed to
\* delete() and keeps its rows; with includeLocallyOwned it loads every row.
C9_CandidatesByOwner ==
    PurgeRunning =>
        /\ {run.candidates[k].media_id : k \in 1..Len(run.candidates)}
              = {r.media_id : r \in {x \in obs.pre.media : run.local \/ x.user_id = ""}}
        /\ Len(run.candidates)
              = Cardinality({x \in obs.pre.media : run.local \/ x.user_id = ""})
        /\ ~run.local =>
              \A r \in obs.pre.media :
                  r.user_id # "" => ~Called(r.media_id) /\ RowsKept(r.media_id)

\* a live purge without includeLocallyOwned is over: an artifact with an
\* owner, older than the cutoff, still has its row; the remote one was deleted
C9_Witness ==
    /\ PurgeDone
    /\ ~run.local
    /\ ~run.dryrun
    /\ \E r \in media :
          /\ r.user_id # ""
          /\ (r.creation_ts \div MsPerSec) * MsPerSec < Cutoff
    /\ \E k \in 1..Len(obs.calls) : obs.calls[k].ret

(* ------------------------------- C10 ---------------------------------- *)

\* the thumbnail rows whose media_id matches no artifact row
OrphanCount(M, T) ==
    SumOver([id \in DOMAIN T |-> IF RowsOf(id, M) = {} THEN T[id] ELSE 0], DOMAIN T)

\* C10: the audit counts the thumbnail rows whose artifact id matches no
\* artifact row, logs an error (with that count) iff the count is greater
\* than zero, and leaves the catalog rows unchanged.
C10_AuditCountsOrphans ==
    (pc = "checked" /\ obs.op = "sanity") =>
        /\ media = obs.pre.media
        /\ thumbnail = obs.pre.thumbnail
        /\ (\E k \in 1..Len(obs.log) : obs.log[k].level = "error")
              <=> OrphanCount(media, thumbnail) > 0
        /\ \A k \in 1..Len(obs.log) :
              obs.log[k].level = "error" => obs.log[k].n = OrphanCount(media, thumbnail)

(* ------------------------------- C11 ---------------------------------- *)

\* the calls of the live purge so far are the first run.i - 1 files to
\* delete, one call each, in their order; a call that failed left the rows
\* of its artifact as they were; at the return every file has had its call
SequentialSoFar ==
    (PurgeRunning /\ ~run.dryrun) =>
        /\ run.i <= Len(run.files_to_delete) + 1
        /\ Len(obs.calls) = run.i - 1
        /\ \A k \in 1..Len(obs.calls) :
              /\ obs.calls[k].media_id = run.files_to_delete[k].media_id
              /\ ~obs.calls[k].ret => RowsKept(obs.calls[k].media_id)
        /\ \A k, l \in 1..Len(run.files_to_delete) :
              run.files_to_delete[k].media_id = run.files_to_delete[l].media_id => k = l
        /\ pc = "done" => Len(obs.calls) = Len(run.files_to_delete)

\* C11: a live purge calls delete() exactly once on every eligible artifact,
\* one call after the other in candidate order; a failing delete() leaves its
\* artifact's rows intact, is not retried and does not stop the loop, and the
\* purge ends after the last artifact.
C11_SequentialToTheEnd ==
    /\ []SequentialSoFar
    /\ (pc = "loop") ~> (pc = "done")

\* a live purge is over: its first delete() failed and its second succeeded
C11_Witness ==
    /\ PurgeDone
    /\ ~run.dryrun
    /\ Len(obs.calls) = 2
    /\ ~obs.calls[1].ret
    /\ obs.calls[2].ret

(* --------------------- one File object, observed ---------------------- *)

\* a File constructed from any hash, over any of the trees
PathInit ==
    /\ \E h \in HashInputs :
          probe = [NoProbe EXCEPT !.file = File(<<"1">>, 1, h)]
    /\ \E fs \in FsChoices : dirs = fs.dirs /\ files = fs.files
    /\ media = {}
    /\ thumbnail = [id \in MediaIds |-> 0]
    /\ profiles = <<>>
    /\ _avatar_media_ids = <<>>
    /\ pc = "start"
    /\ run = NoRun
    /\ obs = NewObs("none")

\* the value of self.fullpath: @cached_property computes on the first access
\* and keeps the value in the instance; later accesses read the kept value
CachedFullpath == IF probe.cached THEN probe.cache ELSE fullpath(probe.file)

\* an access of file.fullpath
AccessFullpath ==
    /\ Len(probe.results) < MaxCalls
    /\ probe' = [probe EXCEPT !.cached = TRUE,
                              !.cache = CachedFullpath,
                              !.results = Append(@, CachedFullpath)]
    /\ UNCHANGED <<media, thumbnail, profiles, dirs, files, _avatar_media_ids, pc, run, obs>>

\* a call of file.exists(): it reads self.fullpath, then looks for "file"
CallExists ==
    /\ Len(probe.exists) < MaxCalls
    /\ probe' = [probe EXCEPT
                   !.cached = TRUE,
                   !.cache = CachedFullpath,
                   !.exists = Append(@,
                       IF CachedFullpath.none THEN FALSE
                       ELSE Append(CachedFullpath.path, <<"f", "i", "l", "e">>)
                                \in dirs \cup files)]
    /\ UNCHANGED <<media, thumbnail, profiles, dirs, files, _avatar_media_ids, pc, run, obs>>

PathNext ==
    \/ AccessFullpath
    \/ CallExists

PathSpec == PathInit /\ [][PathNext]_vars

(* ------------------- get_avatar_images, observed --------------------- *)

\* a repository just constructed, over any profile rows
AvatarInit ==
    /\ profiles \in UNION {[1..n -> UrlInputs] : n \in 0..MaxProfiles}
    /\ media = {}
    /\ thumbnail = [id \in MediaIds |-> 0]
    /\ dirs = {}
    /\ files = {}
    /\ _avatar_media_ids = <<>>
    /\ pc = "start"
    /\ run = NoRun
    /\ obs = NewObs("none")
    /\ probe = NoProbe

\* a call of get_avatar_images
GetAvatarImages ==
    /\ _avatar_media_ids' = get_avatar_images(profiles).ids
    /\ obs' = [NewObs("avatars") EXCEPT
                 !.refreshes = 1,
                 !.log = get_avatar_images(profiles).log,
                 !.returned = get_avatar_images(profiles).ids]
    /\ UNCHANGED <<media, thumbnail, profiles, dirs, files, pc, run, probe>>

\* between two calls the homeserver clears the avatar_url of one profile
ClearAvatar ==
    /\ \E k \in 1..Len(profiles) :
          /\ profiles[k] # <<>>
          /\ profiles' = [profiles EXCEPT ![k] = <<>>]
    /\ UNCHANGED <<media, thumbnail, dirs, files, _avatar_media_ids, pc, run, obs, probe>>

AvatarNext ==
    \/ GetAvatarImages
    \/ ClearAvatar

AvatarSpec == AvatarInit /\ [][AvatarNext]_vars

(* ------------------------------- C12 ---------------------------------- *)

\* an earlier delete() of this operation on the artifact now called returned true
DeletedBefore ==
    \E k \in 1..Len(obs.calls) : obs.calls[k].media_id = CalledId /\ obs.calls[k].ret

NothingIffEmpty ==
    /\ \A k \in 1..Len(probe.results) :
          /\ probe.results[k].none <=> probe.file.base64hash = <<>>
          /\ probe.results[k] = probe.results[1]
    /\ probe.file.base64hash = <<>> =>
          \A k \in 1..Len(probe.exists) : ~probe.exists[k]

\* r is the path media_path / h[0] / h[1] / h[2:], three levels below media_path
ThreeLevels(r, h) ==
    /\ ~r.none
    /\ Len(r.path) = Len(media_path) + 3
    /\ SubSeq(r.path, 1, Len(media_path)) = media_path
    /\ r.path[Len(media_path) + 1] = <<h[1]>>
    /\ r.path[Len(media_path) + 2] = <<h[2]>>
    /\ r.path[Len(media_path) + 3] = SubSeq(h, 3, Len(h))

\* C13 as stated: fullpath is nothing exactly when the hash is empty, and
\* then exists() is false; for EVERY non-empty hash (of any length >= 1) it
\* is the three-level path media_path / h[0] / h[1] / h[2:]; and it is the
\* same on every access.
C13_ThreeLevelsForEveryHash ==
    /\ NothingIffEmpty
    /\ \A k \in 1..Len(probe.results) :
          Len(probe.file.base64hash) >= 1 =>
              ThreeLevels(probe.results[k], probe.file.base64hash)

\* C13 (amended): fullpath is nothing exactly when the hash is empty, and
\* then exists() is false; for every hash of length >= 3 it is the
\* three-level path media_path / h[0] / h[1] / h[2:]; a hash of length 1 or
\* 2 gives a path of as many levels as it has characters; and it is the
\* same on every access.
C13_ThreeLevelsFromLengthThree ==
    /\ NothingIffEmpty
    /\ \A k \in 1..Len(probe.results) :
          /\ Len(probe.file.base64hash) >= 3 =>
                ThreeLevels(probe.results[k], probe.file.base64hash)
          /\ Len(probe.file.base64hash) \in 1..2 =>
                Len(probe.results[k].path) =
                    Len(media_path) + Len(probe.file.base64hash)

\* fullpath was read twice on a File with a hash of more than three characters
C13_Witness ==
    /\ Len(probe.results) = MaxCalls
    /\ Len(probe.file.base64hash) > 3
    /\ ~probe.results[MaxCalls].none
    /\ Len(probe.exists) > 0

(* ------------------------------- C14 ---------------------------------- *)

HasSlash(url) == \E k \in 1..Len(url) : url[k] = "/"
NoSlash(url) == url # <<>> /\ ~HasSlash(url)
\* this step is a call of get_avatar_images
Refreshed == obs'.op = "avatars" /\ profiles' = profiles

\* C14: get_avatar_images returns, in the order of the profile rows, for
\* each non-empty avatar_url with a "/" what follows its last "/"; each
\* non-empty url without "/" adds nothing but one warning; and the list
\* returned is the new cache: an id of the old cache stays protected only if
\* an avatar_url still names it.
C14_AvatarIdsReplaceCache ==
    [][Refreshed =>
          /\ Len(obs'.returned) = Len(SelectSeq(profiles, HasSlash))
          /\ \A k \in 1..Len(obs'.returned) :
                UrlNames(SelectSeq(profiles, HasSlash)[k], obs'.returned[k])
          /\ obs'.log = [k \in 1..Len(SelectSeq(profiles, NoSlash)) |->
                            LogRec("warning", "Invalid avatar URL",
                                   SelectSeq(profiles, NoSlash)[k], 0)]
          /\ _avatar_media_ids' = obs'.returned
          /\ \A k \in 1..Len(_avatar_media_ids) :
                InSeq(_avatar_media_ids[k], _avatar_media_ids') <=>
                    \E j \in 1..Len(profiles) :
                        UrlNames(profiles[j], _avatar_media_ids[k]) ]_vars

\* a second call, after an avatar_url was cleared: an id the earlier call
\* cached is no longer in the cache, and a url without "/" was warned about
C14_Witness ==
    /\ obs.op = "avatars"
    /\ \E k \in 1..Len(obs.pre.avatars) : ~InSeq(obs.pre.avatars[k], _avatar_media_ids)
    /\ Len(obs.log) > 0
    /\ _avatar_media_ids = obs.returned

(* ------------------------------- C15 ---------------------------------- *)

\* every thumbnail row references an existing row of the media table
NoOrphans(M, T) == \A id \in MediaIds : T[id] > 0 => RowsOf(id, M) # {}

\* C15: each step of the tool (a delete() of process_single_media, a second
\* delete(), each delete() of a purge) takes a catalog in which every
\* thumbnail row references an existing artifact row to one in which that
\* holds again; no step leaves an id without its artifact row and with a
\* thumbnail row; and a delete() that issues statements issues the DELETE of
\* the thumbnail rows before the DELETE of the artifact row, and the one
\* COMMIT after both.
C15_ThumbnailsKeepTheirArtifact ==
    [][ /\ NoOrphans(media, thumbnail) => NoOrphans(media', thumbnail')
        /\ \A id \in MediaIds :
              (RowsOf(id, media) # {} /\ RowsOf(id, media') = {}) => thumbnail'[id] = 0
        /\ (DeleteCalled /\ NewStmts # <<>>) =>
              \E i, j \in 1..Len(NewStmts) :
                  /\ NewStmts[i] = DeleteThumbnail(CalledId)
                  /\ NewStmts[j] = DeleteMedia(CalledId)
                  /\ i < j
                  /\ \A k \in 1..Len(NewStmts) :
                        NewStmts[k] = Commit <=> k = Len(NewStmts) ]_vars

\* a live purge, begun on a catalog without orphans, has deleted an artifact
\* that had a thumbnail row and has left another artifact with its thumbnail row
C15_Witness ==
    /\ PurgeDone
    /\ ~run.dryrun
    /\ NoOrphans(obs.pre.media, obs.pre.thumbnail)
    /\ \E k \in 1..Len(obs.calls) :
          /\ obs.calls[k].ret
          /\ obs.pre.thumbnail[obs.calls[k].media_id] > 0
          /\ thumbnail[obs.calls[k].media_id] = 0
    /\ \E r \in media : thumbnail[r.media_id] > 0
    /\ NoOrphans(media, thumbnail)

(* ------------------------------- C16 ---------------------------------- *)

\* the purge passes id to delete()
ToDelete(id) ==
    \E k \in 1..Len(run.files_to_delete) : run.files_to_delete[k].media_id = id

\* the storage directory of row r and what it holds are as when purge was called
DirectoryKept(r) ==
    LET p == fullpath(File(r.media_id, r.creation_ts \div MsPerSec, r.base64hash))
    IN  ~p.none =>
            /\ p.path \in dirs <=> p.path \in obs.pre.dirs
            /\ Glob(p.path, dirs, files) = Glob(p.path, obs.pre.dirs, obs.pre.files)

\* C16: after a live purge has returned, every artifact it skipped (not a
\* candidate, protected, or too young) has its artifact row, its thumbnail
\* rows and its storage directory with all its files exactly as before,
\* also when an artifact passed to delete() has the same base64hash.
C16_SkippedLeftIntact ==
    (PurgeDone /\ ~run.dryrun) =>
        \A r \in obs.pre.media :
            ~ToDelete(r.media_id) => (RowsKept(r.media_id) /\ DirectoryKept(r))

====
